---- MODULE Spec2Model ----
(***************************************************************************)
(* Model of utilities/fuzzer.py: the generator thread (generate_tests),    *)
(* the scheduler loop (TestExecutor.startFuzzing), the runners started in  *)
(* the client daemons, and the post-processing of a finished test          *)
(* (postprocess_test, end_processes, processTraces, removeFiles,           *)
(* saveArtefacts, addArtefact, onPass, onFail).                            *)
(***************************************************************************)
EXTENDS Integers, Sequences, FiniteSets, TLC

\* ------------------------------------------------------------------ bounds
\* Number of tests the generator thread creates within the modelled window.
MaxTests == 2
\* Longest run of step lines before the diff marker of a combined trace.
MaxSteps == 22
\* Most lines after the diff marker of a combined trace.
MaxFollowing == 6

\* ------------------------------------------------------- program constants
\* MAX_PARALELL = 50 in startFuzzing.
MAX_PARALELL == 50
\* queue.Queue(maxsize = 20) in generate_tests.
QueueMaxSize == 20
\* collections.deque([], 100)
DequeMaxLen == 100
\* get_summary(self, combined_trace, n=20)
SummaryN == 20
\* range(index, min(len(combined_trace), index + 5))
SummaryTail == 5

\* The keys of the `starters` dictionary of start_processes.
Starters == {"geth", "cpp", "parity", "hera"}

\* Values of Config.active_clients (names only) that the model runs with:
\* no client, one client, two clients.  geth and parity are the clients whose
\* starters write their trace to logs/<id>-<client>.trace.log through shWrap;
\* py has a canonicalizer but no starter; the starter of cpp raises.
ClientConfigs == {<< >>, <<"geth">>, <<"geth", "parity">>,
                  <<"py", "geth">>, <<"geth", "cpp">>}

\* startCpp and startHera read test.tmpfile, an attribute no code assigns:
\* they raise AttributeError before any exec is started.
StarterRaises(client) == client \in {"cpp", "hera"}

\* Contents a runner may leave in its trace file, given as the canonical step
\* list the file canonicalizes to; a runner may also leave no file at all.
TraceContents == {<< >>, <<1>>}
TraceOutcomes == {[file |-> TRUE, content |-> c] : c \in TraceContents}
                     \cup {[file |-> FALSE, content |-> << >>]}

\* The event bitmask poll() reports for a finished exec: POLLIN | POLLHUP.
PollEvents == {17}
\* event & (select.POLLIN | select.POLLPRI), for the masks of PollEvents.
HasInput(event) == event = 17

\* ------------------------------------------------------------------- state
VARIABLES
    active_clients,    \* Config.active_clients (client names, in order)
    force_save,        \* truth value of Config.force_save
    counter,           \* createATest: counter
    budget,            \* tests the generator may still create in the window
    prod_pc,           \* generator thread: "create" | "put"
    pending,           \* createATest: s, the test created and not yet put
    q,                 \* the handoff queue (test ids, oldest first)
    tests,             \* id -> the StateTest object (and what happened to it)
    channel,           \* <<id, client>> -> state of the exec's output socket
    active_sockets,    \* keys of active_sockets: the registered channels
    fs,                \* the files under testfiles/, logs/ and artefacts/
    stats,             \* TestExecutor.stats
    failures,          \* TestExecutor.failures (ids of the failing tests)
    sched_pc,          \* scheduler: "get" | "poll" | "events" | "crashed"
    socketlist,        \* what poll() returned and is not handled yet
    killed,            \* the daemons kill_daemon was called for on SIGINT
    traceLengths,      \* TestExecutor.traceLengths (oldest sample first)
    traceDepths,       \* TestExecutor.traceDepths
    traceConstantinopleOps,  \* TestExecutor.traceConstantinopleOps
    combined_trace,    \* get_summary: the argument of the call under study
    trace_summary,     \* get_summary: what the call returned
    summary_pc         \* get_summary: "idle" | "call" | "returned"

vars == <<active_clients, force_save, counter, budget, prod_pc, pending, q,
          tests, channel, active_sockets, fs, stats, failures, sched_pc,
          socketlist, killed, traceLengths, traceDepths,
          traceConstantinopleOps, combined_trace, trace_summary, summary_pc>>

\* --------------------------------------------------------------- helpers
Range(s) == {s[i] : i \in 1..Len(s)}

\* RawStateTest.fullfilename: testfiles/<id>-test.json
fullfilename(t) == <<"testfiles", t, "test.json">>
\* RawStateTest.tempTraceLocation: logs/<id>-<client>.trace.log
tempTraceLocation(t, client) == <<"logs", t, client>>
\* The location a file gets in artefacts/: same basename.
ArtefactLocation(f) == <<"artefacts", f[2], f[3]>>

\* The StateTest object right after StateTest.__init__; phase, calls and
\* missing record what the program did with the test.
NewTest ==
    [ phase               |-> "generated",
      procs               |-> << >>,
      numprocs            |-> 0,
      canon_traces        |-> << >>,
      traceFiles          |-> << >>,
      additionalArtefacts |-> << >>,
      socketEvent         |-> << >>,
      socketData          |-> << >>,
      calls               |-> << >>,
      missing             |-> {} ]

\* ---------------------------------------------------------------- Init
\* Number of tests in flight in the loaded start state.
Backlog == MAX_PARALELL - 1

\* A test whose geth runner has completed and been handled while its parity
\* runner never finishes.
StalledTest ==
    [ NewTest EXCEPT !.phase = "dispatched",
                     !.procs = <<"geth", "parity">>,
                     !.numprocs = 1,
                     !.socketEvent = <<17>>,
                     !.socketData = <<"data">> ]

\* The three deques as TestExecutor.__init__ leaves them.
NoSamples ==
    /\ traceLengths = << >>
    /\ traceDepths = << >>
    /\ traceConstantinopleOps = << >>
\* No call of get_summary is under study.
NoSummary ==
    /\ combined_trace = << >>
    /\ trace_summary = << >>
    /\ summary_pc = "idle"

\* Values of Config.force_save a fresh run is started with: both, except
\* that runs with two working runners start without force_save (with
\* force_save they are followed from the loaded start state).
ForceSaveConfigs(clients) ==
    IF Len(clients) = 2 /\ \A i \in 1..Len(clients) :
                               clients[i] \in Starters /\ ~StarterRaises(clients[i])
    THEN {FALSE}
    ELSE BOOLEAN

\* The state after construction: nothing generated, nothing in flight.
InitFresh ==
    /\ active_clients \in ClientConfigs
    /\ force_save \in ForceSaveConfigs(active_clients)
    /\ counter = 0
    /\ budget = MaxTests
    /\ prod_pc = "create"
    /\ pending = << >>
    /\ q = << >>
    /\ tests = << >>
    /\ channel = << >>
    /\ active_sockets = {}
    /\ fs = << >>
    /\ stats = [pass_count |-> 0, fail_count |-> 0, total_count |-> 0,
                num_active_tests |-> 0, num_active_sockets |-> 0]
    /\ failures = << >>
    /\ sched_pc = "get"
    /\ socketlist = {}
    /\ killed = << >>
    /\ NoSamples
    /\ NoSummary

\* A later state of a two-client run: Backlog tests have been dispatched, the
\* geth runner of each has completed and been handled (one channel per poll),
\* and the parity runner of each hangs.  The scheduler is back at q.get().
InitLoaded ==
    /\ active_clients = <<"geth", "parity">>
    /\ force_save \in BOOLEAN
    /\ counter = Backlog
    /\ budget = MaxTests
    /\ prod_pc = "create"
    /\ pending = << >>
    /\ q = << >>
    /\ tests = [t \in 0..(Backlog - 1) |-> StalledTest]
    /\ channel = [s \in (0..(Backlog - 1)) \X {"geth", "parity"} |->
                     IF s[2] = "geth" THEN [state |-> "closed", event |-> 17]
                                      ELSE [state |-> "hung", event |-> 0]]
    /\ active_sockets = (0..(Backlog - 1)) \X {"parity"}
    /\ fs = [f \in ({"testfiles"} \X (0..(Backlog - 1)) \X {"test.json"})
                   \cup ({"logs"} \X (0..(Backlog - 1)) \X {"geth"}) |->
                IF f[1] = "testfiles" THEN <<"json">> ELSE <<1>>]
    /\ stats = [pass_count |-> 0, fail_count |-> 0, total_count |-> 0,
                num_active_tests |-> Backlog, num_active_sockets |-> Backlog - 1]
    /\ failures = << >>
    /\ sched_pc = "get"
    /\ socketlist = {}
    /\ killed = << >>
    /\ NoSamples
    /\ NoSummary

\* A later state of a one-client run: test 0 has been dispatched and its
\* runner hangs, so the scheduler waits in poll(); meanwhile the generator
\* has filled the queue up to one place below maxsize.
InitBackedUp ==
    /\ active_clients = <<"geth">>
    /\ force_save \in BOOLEAN
    /\ counter = QueueMaxSize
    /\ budget = MaxTests
    /\ prod_pc = "create"
    /\ pending = << >>
    /\ q = [i \in 1..(QueueMaxSize - 1) |-> i]
    /\ tests = [t \in 0..(QueueMaxSize - 1) |->
                   IF t = 0 THEN [NewTest EXCEPT !.phase = "dispatched",
                                                 !.procs = <<"geth">>,
                                                 !.numprocs = 1]
                   ELSE NewTest]
    /\ channel = [s \in {<<0, "geth">>} |-> [state |-> "hung", event |-> 0]]
    /\ active_sockets = {<<0, "geth">>}
    /\ fs = [f \in {"testfiles"} \X (0..(QueueMaxSize - 1)) \X {"test.json"} |->
                <<"json">>]
    /\ stats = [pass_count |-> 0, fail_count |-> 0, total_count |-> 0,
                num_active_tests |-> 1, num_active_sockets |-> 0]
    /\ failures = << >>
    /\ sched_pc = "poll"
    /\ socketlist = {}
    /\ killed = << >>
    /\ NoSamples
    /\ NoSummary

\* Number of tests already post-processed in the sampled start state.
Sampled == DequeMaxLen - 1

\* A test of a one-client run that passed: its trace of one step was read,
\* sampled and compared, its files were removed and it was counted.
PassedTest(t) ==
    [ NewTest EXCEPT !.phase = "done",
                     !.procs = <<"geth">>,
                     !.canon_traces = << <<1>> >>,
                     !.traceFiles = <<tempTraceLocation(t, "geth")>>,
                     !.socketEvent = <<17>>,
                     !.socketData = <<"data">>,
                     !.calls = <<"end_processes", "samples", "compare_traces",
                                 "removeFiles", "onPass">> ]

\* A later state of a one-client run without force_save: Sampled tests have
\* been run one after the other, each passed and left one sample in every
\* deque.  The scheduler is back at q.get().
InitSampled ==
    /\ active_clients = <<"geth">>
    /\ force_save = FALSE
    /\ counter = Sampled
    /\ budget = MaxTests
    /\ prod_pc = "create"
    /\ pending = << >>
    /\ q = << >>
    /\ tests = [t \in 0..(Sampled - 1) |-> PassedTest(t)]
    /\ channel = [s \in (0..(Sampled - 1)) \X {"geth"} |->
                     [state |-> "closed", event |-> 17]]
    /\ active_sockets = {}
    /\ fs = << >>
    /\ stats = [pass_count |-> Sampled, fail_count |-> 0, total_count |-> Sampled,
                num_active_tests |-> 0, num_active_sockets |-> 0]
    /\ failures = << >>
    /\ sched_pc = "get"
    /\ socketlist = {}
    /\ killed = << >>
    /\ traceLengths = [i \in 1..Sampled |-> 1]
    /\ traceDepths = [i \in 1..Sampled |-> 1]
    /\ traceConstantinopleOps = [i \in 1..Sampled |-> 1]
    /\ NoSummary

Init == InitFresh \/ InitLoaded \/ InitBackedUp \/ InitSampled

\* ------------------------------------------------------- generator thread
\* createATest, up to the blocking put: fill the template, build StateTest
\* number `counter`, write its JSON file, increment the counter.
SameCounter(c) == c
\* Variant of writeToFile that has written nothing when the test is put.
writeToFileLater(t, fsx) == fsx
\* RawStateTest.writeToFile: json.dump of the statetest into fullfilename.
writeToFile(t, fsx) == (fullfilename(t) :> <<"json">>) @@ fsx
\* counter = counter + 1
NextCounter(c) == c + 1

ProducerCreate ==
    /\ prod_pc = "create"
    /\ budget > 0
    /\ tests' = (counter :> NewTest) @@ tests
    /\ fs' = writeToFile(counter, fs)
    /\ counter' = NextCounter(counter)
    /\ budget' = budget - 1
    /\ prod_pc' = "put"
    /\ pending' = <<counter>>
    /\ UNCHANGED <<traceLengths, traceDepths, traceConstantinopleOps,
                   combined_trace, trace_summary, summary_pc,
                   active_clients, force_save, q, channel, active_sockets,
                   stats, failures, sched_pc, socketlist, killed>>

\* Variant of the test below that lets one more item in.
QueueHasRoomOffByOne(n) == n <= QueueMaxSize
\* Queue.put blocks while the queue holds maxsize items.
QueueHasRoom(n) == n < QueueMaxSize

\* q.put(s, block=True): returns once the queue holds fewer than maxsize items.
\* s is the test created last.
ProducerPut ==
    /\ prod_pc = "put"
    /\ QueueHasRoom(Len(q))
    /\ q' = Append(q, pending[1])
    /\ prod_pc' = "create"
    /\ pending' = << >>
    /\ UNCHANGED <<traceLengths, traceDepths, traceConstantinopleOps,
                   combined_trace, trace_summary, summary_pc,
                   active_clients, force_save, counter, budget, tests,
                   channel, active_sockets, fs, stats, failures, sched_pc,
                   socketlist, killed>>

\* ----------------------------------------------------------------- runners
\* The exec started for (test, client) terminates: the shell command has
\* written its trace file, or left none, and the output socket becomes ready.
\* An exec runs in the daemon named after its client and ends with it.
RunnerExit ==
    \E s \in DOMAIN channel, outcome \in TraceOutcomes, event \in PollEvents :
        /\ channel[s].state = "running"
        /\ \A i \in 1..Len(killed) : killed[i].name # s[2]
        /\ channel' = [channel EXCEPT ![s] = [state |-> "readable", event |-> event]]
        /\ fs' = IF outcome.file
                 THEN (tempTraceLocation(s[1], s[2]) :> outcome.content) @@ fs
                 ELSE fs
        /\ UNCHANGED <<traceLengths, traceDepths, traceConstantinopleOps,
                   combined_trace, trace_summary, summary_pc,
                   active_clients, force_save, counter, budget, prod_pc,
                       pending, q, tests, active_sockets, stats, failures,
                       sched_pc, socketlist, killed>>

\* --------------------------------------------------------------- scheduler
\* Variant of the guard below with <= for <.
UpToCap(n) == n <= MAX_PARALELL
\* The guard of the dispatch branch: num_active_tests < MAX_PARALELL.
BelowCap(n) == n < MAX_PARALELL

\* The clients start_processes starts a runner for, in order: the names of
\* active_clients that are keys of `starters`.
StartedClients(clients) == SelectSeq(clients, LAMBDA c : c \in Starters)

\* The position in `clients` of the first client whose starter raises, or 0.
FirstRaising(clients) ==
    LET raising == {i \in 1..Len(clients) : StarterRaises(clients[i])}
    IN IF raising = {} THEN 0
       ELSE CHOOSE i \in raising : \A j \in raising : i <= j

\* One iteration of `for test in generate_tests()`, from q.get() returning a
\* test to the call of poller.poll(), when the cap is not reached: start the
\* runners, count the test as active, register every output socket.
SchedDispatch ==
    /\ sched_pc = "get"
    /\ q # << >>
    /\ BelowCap(stats.num_active_tests)
    /\ FirstRaising(StartedClients(active_clients)) = 0
    /\ LET t == Head(q)
           procs == StartedClients(active_clients)
           socks == {<<t, procs[i]>> : i \in 1..Len(procs)}
       IN /\ q' = Tail(q)
          /\ tests' = [tests EXCEPT ![t].phase = "dispatched",
                                    ![t].procs = @ \o procs,
                                    ![t].numprocs = Len(procs)]
          /\ channel' = [s \in socks |-> [state |-> "running", event |-> 0]] @@ channel
          /\ stats' = [stats EXCEPT !.num_active_tests = @ + 1,
                                    !.num_active_sockets = Cardinality(active_sockets)]
          /\ active_sockets' = active_sockets \cup socks
    /\ sched_pc' = "poll"
    /\ UNCHANGED <<traceLengths, traceDepths, traceConstantinopleOps,
                   combined_trace, trace_summary, summary_pc,
                   active_clients, force_save, counter, budget, prod_pc,
                   pending, fs, failures, socketlist, killed>>

\* The same iteration when a starter raises inside start_processes: the
\* runners of the clients before it are started and appended to test.procs,
\* then the exception leaves start_processes and startFuzzing (nothing
\* catches it): no channel is registered and the program ends.
SchedDispatchRaises ==
    /\ sched_pc = "get"
    /\ q # << >>
    /\ BelowCap(stats.num_active_tests)
    /\ FirstRaising(StartedClients(active_clients)) > 0
    /\ LET t == Head(q)
           procs == SubSeq(StartedClients(active_clients), 1,
                           FirstRaising(StartedClients(active_clients)) - 1)
           socks == {<<t, procs[i]>> : i \in 1..Len(procs)}
       IN /\ q' = Tail(q)
          /\ tests' = [tests EXCEPT ![t].phase = "startfailed",
                                    ![t].procs = @ \o procs]
          /\ channel' = [s \in socks |-> [state |-> "running", event |-> 0]] @@ channel
    /\ sched_pc' = "crashed"
    /\ UNCHANGED <<traceLengths, traceDepths, traceConstantinopleOps,
                   combined_trace, trace_summary, summary_pc,
                   active_clients, force_save, counter, budget, prod_pc,
                   pending, active_sockets, fs, stats, failures, socketlist,
                   killed>>

\* The same iteration when num_active_tests >= MAX_PARALELL: log, sleep 10 s,
\* go on to poll.  The test taken from the queue is not referenced again.
SchedMaxParallel ==
    /\ sched_pc = "get"
    /\ q # << >>
    /\ ~BelowCap(stats.num_active_tests)
    /\ q' = Tail(q)
    /\ tests' = [tests EXCEPT ![Head(q)].phase = "skipped"]
    /\ sched_pc' = "poll"
    /\ UNCHANGED <<traceLengths, traceDepths, traceConstantinopleOps,
                   combined_trace, trace_summary, summary_pc,
                   active_clients, force_save, counter, budget, prod_pc,
                   pending, channel, active_sockets, fs, stats, failures,
                   socketlist, killed>>

\* The registered channels that are ready.
ReadySockets == {s \in active_sockets : channel[s].state = "readable"}

\* Variant of the test below for a poll that does not block.
PollReturnsAtOnce(ready) == TRUE
\* poller.poll() is called without timeout: it returns once at least one
\* registered channel is ready.
PollReturns(ready) == ready # {}

\* socketlist = poller.poll(): every ready channel with its event mask;
\* `if len(socketlist) == 0: continue` goes back to the generator.
SchedPoll ==
    /\ sched_pc = "poll"
    /\ PollReturns(ReadySockets)
    /\ socketlist' = {<<s, channel[s].event>> : s \in ReadySockets}
    /\ sched_pc' = IF socketlist' = {} THEN "get" ELSE "events"
    /\ UNCHANGED <<traceLengths, traceDepths, traceConstantinopleOps,
                   combined_trace, trace_summary, summary_pc,
                   active_clients, force_save, counter, budget, prod_pc,
                   pending, q, tests, channel, active_sockets, fs, stats,
                   failures, killed>>

\* ---------------------------------------------------------- post-processing
\* The canonicalizer of a client applied to its trace file and rendered with
\* toText: trace files are given by the step list they canonicalize to.
Canonicalized(content) == content

\* The loop of end_processes from procs[i] on: the canonical trace appended
\* for each client.  canon_trace is the local variable of that name: assigned
\* inside the try block when the file opens, left as it is on FileNotFoundError.
RECURSIVE CanonTracesFrom(_, _, _, _)
CanonTracesFrom(t, procs, i, canon_trace) ==
    IF i > Len(procs) THEN << >>
    ELSE LET filename == tempTraceLocation(t, procs[i])
             read == IF filename \in DOMAIN fs THEN Canonicalized(fs[filename])
                     ELSE canon_trace
         IN <<read>> \o CanonTracesFrom(t, procs, i + 1, read)

\* Fuzzer.end_processes on the test object: storeTrace records the trace file
\* of every proc, canon_traces gets one entry per proc (canon_trace = [] before
\* the loop).  missing notes the clients whose file could not be opened.
end_processes(t, test) ==
    [test EXCEPT
        !.traceFiles = @ \o [i \in 1..Len(test.procs) |->
                                tempTraceLocation(t, test.procs[i])],
        !.canon_traces = @ \o CanonTracesFrom(t, test.procs, 1, << >>),
        !.missing = {c \in Range(test.procs) : tempTraceLocation(t, c) \notin DOMAIN fs},
        !.calls = Append(@, "end_processes")]

\* VMUtils.compare_traces, first component: the traces are equivalent iff
\* they are pairwise equal (no trace, or a single one, is equivalent).
compare_traces(canon_traces) ==
    \A i, j \in 1..Len(canon_traces) : canon_traces[i] = canon_traces[j]

\* Variant of the steps below without the `return None` after removeFiles.
ProcessTracesStepsNoReturn(equivalent, forceSave) ==
    (IF equivalent /\ ~forceSave THEN <<"removeFiles">> ELSE << >>)
        \o <<"saveArtefacts", "combined_trace.log", "shortened_trace.log">>
\* What processTraces does with the store, in order: removeFiles, or
\* saveArtefacts and the two addArtefact calls (named by their file).
ProcessTracesSteps(equivalent, forceSave) ==
    IF equivalent /\ ~forceSave
    THEN <<"removeFiles">>
    ELSE <<"saveArtefacts", "combined_trace.log", "shortened_trace.log">>
\* processTraces returns None after removeFiles, the test otherwise.
ProcessTracesReturnsNone(equivalent, forceSave) == equivalent /\ ~forceSave

\* os.remove of files[i..] in order; FileNotFoundError at the first absent one.
RECURSIVE RemoveFrom(_, _, _)
RemoveFrom(files, i, fsx) ==
    IF i > Len(files) THEN [fs |-> fsx, raised |-> FALSE]
    ELSE IF files[i] \notin DOMAIN fsx THEN [fs |-> fsx, raised |-> TRUE]
    ELSE RemoveFrom(files, i + 1, [f \in DOMAIN fsx \ {files[i]} |-> fsx[f]])

\* shutil.move of files[i..] into artefacts/ in order; FileNotFoundError at
\* the first absent one.
RECURSIVE MoveFrom(_, _, _)
MoveFrom(files, i, fsx) ==
    IF i > Len(files) THEN [fs |-> fsx, raised |-> FALSE]
    ELSE IF files[i] \notin DOMAIN fsx THEN [fs |-> fsx, raised |-> TRUE]
    ELSE MoveFrom(files, i + 1,
                  (ArtefactLocation(files[i]) :> fsx[files[i]])
                      @@ [f \in DOMAIN fsx \ {files[i]} |-> fsx[f]])

\* Variant of removeFiles that leaves the trace files in logs/.
removeFilesJsonOnly(t, st) ==
    LET r == RemoveFrom(<<fullfilename(t)>>, 1, st.fs)
    IN [st EXCEPT !.fs = r.fs, !.raised = r.raised]
\* RawStateTest.removeFiles: the test JSON, then every recorded trace file.
removeFiles(t, st) ==
    LET r == RemoveFrom(<<fullfilename(t)>> \o st.test.traceFiles, 1, st.fs)
    IN [st EXCEPT !.fs = r.fs, !.raised = r.raised]

\* Variant of saveArtefacts that moves the test JSON only.
saveArtefactsJsonOnly(t, st) ==
    LET r == MoveFrom(<<fullfilename(t)>>, 1, st.fs)
    IN [st EXCEPT !.fs = r.fs, !.raised = r.raised]
\* RawStateTest.saveArtefacts: move the test JSON, then every recorded trace
\* file; traceFiles is replaced by the new locations once all are moved.
saveArtefacts(t, st) ==
    LET r == MoveFrom(<<fullfilename(t)>> \o st.test.traceFiles, 1, st.fs)
    IN [st EXCEPT !.fs = r.fs, !.raised = r.raised,
                  !.test.traceFiles =
                      IF r.raised THEN @
                      ELSE [i \in 1..Len(@) |-> ArtefactLocation(@[i])]]

\* RawStateTest.addArtefact: write artefacts/<id>-<fname>, remember its path.
addArtefact(t, st, fname) ==
    [st EXCEPT !.fs = (<<"artefacts", t, fname>> :> <<fname>>) @@ @,
               !.test.additionalArtefacts = Append(@, <<"artefacts", t, fname>>)]

\* The store operations steps[i..] of processTraces, stopping at an exception.
RECURSIVE RunSteps(_, _, _, _)
RunSteps(t, steps, i, st) ==
    IF i > Len(steps) \/ st.raised THEN st
    ELSE LET called == [st EXCEPT !.test.calls = Append(@, steps[i])]
             next == IF steps[i] = "removeFiles" THEN removeFiles(t, called)
                     ELSE IF steps[i] = "saveArtefacts" THEN saveArtefacts(t, called)
                     ELSE addArtefact(t, called, steps[i])
         IN RunSteps(t, steps, i + 1, next)

\* Fuzzer.processTraces on the test object as end_processes left it:
\* the test, the files, whether an exception left it, whether it returned None.
processTraces(t, test, forceSave) ==
    LET equivalent == compare_traces(test.canon_traces)
        compared == [test EXCEPT !.calls = Append(@, "compare_traces")]
        st == RunSteps(t, ProcessTracesSteps(equivalent, forceSave), 1,
                       [test |-> compared, fs |-> fs, raised |-> FALSE])
    IN [test |-> st.test, fs |-> st.fs, raised |-> st.raised,
        none |-> ProcessTracesReturnsNone(equivalent, forceSave)]

\* TestExecutor.postprocess_test up to the return of processTraces:
\* end_processes, the three deque appends ("samples"), then processTraces.
postprocess_test(t, test) ==
    LET collected == end_processes(t, test)
        sampled == [collected EXCEPT !.calls = Append(@, "samples")]
    IN processTraces(t, sampled, force_save)

\* TestExecutor.onPass / onFail on stats (onFailNoTotal: a variant of onFail
\* that leaves total_count alone).
onPass(st) == [st EXCEPT !.pass_count = @ + 1, !.total_count = @ + 1]
onFailNoTotal(st) == [st EXCEPT !.fail_count = @ + 1]
onFail(st) == [st EXCEPT !.fail_count = @ + 1, !.total_count = @ + 1]

\* Variant of the append below for a deque without maxlen.
DequeAppendUnbounded(d, x) == Append(d, x)
\* collections.deque([], 100).append: when the deque is full the oldest
\* sample is discarded.
DequeAppend(d, x) ==
    IF Len(d) < DequeMaxLen THEN Append(d, x) ELSE Append(Tail(d), x)

\* The steps of the traces end_processes read from a file.
StepsRead(test) ==
    UNION {{<<i, j>> : j \in 1..Len(test.canon_traces[i])} :
               i \in {k \in 1..Len(test.procs) : test.procs[k] \notin test.missing}}
\* VMUtils.Stats.result() after the traces of the test went through
\* traceStats: a step is given by its call depth; every step counts as
\* one Constantinople operation.
StatsResult(test) ==
    [maxDepth |-> IF StepsRead(test) = {} THEN 0
                  ELSE CHOOSE d \in {test.canon_traces[p[1]][p[2]] : p \in StepsRead(test)} :
                          \A p \in StepsRead(test) : test.canon_traces[p[1]][p[2]] <= d,
     constatinopleOps |-> Cardinality(StepsRead(test))]
\* What end_processes returns: (tracelen, stats.result()), tracelen being
\* the length of the canonical trace appended last (0 without procs).
EndProcessesData(test) ==
    [traceLength |-> IF test.canon_traces = << >> THEN 0
                     ELSE Len(test.canon_traces[Len(test.canon_traces)]),
     stats |-> StatsResult(test)]

\* Variant of the pop below that leaves the entry in place.
UnregisterNothing(sockets, s) == sockets
\* poller.unregister(socketfd) and active_sockets.pop(socketfd)
Unregister(sockets, s) == sockets \ {s}

\* Variant of the test below that fires one completion early.
AllButOneProcFinished(numprocs) == numprocs <= 1
\* `if test.numprocs == 0` after the decrement.
AllProcsFinished(numprocs) == numprocs = 0

\* One turn of `for (socketfd, event) in socketlist`: unregister the channel,
\* read and close the socket, log the event, decrement numprocs; when that
\* reaches 0, decrement num_active_tests and post-process the test.  An
\* exception of the post-processing leaves startFuzzing and ends the program.
HandleEvent ==
    /\ sched_pc = "events"
    /\ \E ev \in socketlist :
        LET s == ev[1]
            t == s[1]
            event == ev[2]
            test == [tests[t] EXCEPT
                        !.socketData = IF HasInput(event) THEN Append(@, "data") ELSE @,
                        !.socketEvent = Append(@, event),
                        !.numprocs = @ - 1]
            post == postprocess_test(t, test)
            data == EndProcessesData(post.test)
            active == [stats EXCEPT !.num_active_tests = @ - 1]
        IN /\ active_sockets' = Unregister(active_sockets, s)
           /\ channel' = [channel EXCEPT ![s].state = "closed"]
           /\ socketlist' = socketlist \ {ev}
           /\ IF ~AllProcsFinished(test.numprocs)
              THEN /\ tests' = [tests EXCEPT ![t] = test]
                   /\ sched_pc' = IF socketlist' = {} THEN "get" ELSE "events"
                   /\ UNCHANGED <<fs, stats, failures, traceLengths, traceDepths,
                                  traceConstantinopleOps>>
              ELSE /\ traceLengths' = DequeAppend(traceLengths, data.traceLength)
                   /\ traceDepths' = DequeAppend(traceDepths, data.stats.maxDepth)
                   /\ traceConstantinopleOps' =
                          DequeAppend(traceConstantinopleOps, data.stats.constatinopleOps)
                   /\ IF post.raised
                      THEN /\ tests' = [tests EXCEPT ![t] = [post.test EXCEPT !.phase = "crashed"]]
                           /\ fs' = post.fs
                           /\ stats' = active
                           /\ sched_pc' = "crashed"
                           /\ UNCHANGED failures
                      ELSE /\ tests' = [tests EXCEPT ![t] =
                                          [post.test EXCEPT
                                              !.phase = "done",
                                              !.calls = Append(@, IF post.none THEN "onPass"
                                                                  ELSE "onFail")]]
                           /\ fs' = post.fs
                           /\ stats' = IF post.none THEN onPass(active) ELSE onFail(active)
                           /\ failures' = IF post.none THEN failures ELSE Append(failures, t)
                           /\ sched_pc' = IF socketlist' = {} THEN "get" ELSE "events"
    /\ UNCHANGED <<combined_trace, trace_summary, summary_pc,
                   active_clients, force_save, counter, budget, prod_pc,
                   pending, q, killed>>

\* ------------------------------------------------------------ specification
Next ==
    \/ ProducerCreate
    \/ ProducerPut
    \/ RunnerExit
    \/ SchedDispatch
    \/ SchedDispatchRaises
    \/ SchedMaxParallel
    \/ SchedPoll
    \/ HandleEvent

Spec == Init /\ [][Next]_vars

\* ------------------------------------------------------------------ SIGINT
\* The clients configured with <client>.docker_name (isDocker is True);
\* py is configured with py.binary.
DockerClients == {"geth", "parity", "cpp", "hera"}

\* Variant of kill_daemon without the try/except.
KillDaemonPropagates(found) == ~found
\* kill_daemon: whether an exception leaves it.  containers.get raises when
\* the daemon is not found; `except Exception: pass` swallows it.
KillDaemonRaises(found) == FALSE

\* The loop of stop_daemons from clients[i] on: the daemons kill_daemon is
\* called for, each with whether it was found, and whether an exception
\* ended the loop.  gone are the daemons that do not exist any more.
RECURSIVE StopDaemonsFrom(_, _, _)
StopDaemonsFrom(clients, i, gone) ==
    IF i > Len(clients) THEN [killed |-> << >>, raised |-> FALSE]
    ELSE IF clients[i] \notin DockerClients THEN StopDaemonsFrom(clients, i + 1, gone)
    ELSE LET this == [name |-> clients[i], found |-> clients[i] \notin gone]
             rest == StopDaemonsFrom(clients, i + 1, gone)
         IN IF KillDaemonRaises(this.found)
            THEN [killed |-> <<this>>, raised |-> TRUE]
            ELSE [killed |-> <<this>> \o rest.killed, raised |-> rest.raised]

\* Fuzzer.stop_daemons.
stop_daemons(gone) == StopDaemonsFrom(active_clients, 1, gone)

\* signal_handler, run in the main thread while it is inside startFuzzing:
\* stop_daemons, then sys.exit(1), which ends the main thread.  The
\* generator thread is not touched.
Sigint ==
    /\ sched_pc \in {"get", "poll", "events"}
    /\ \E gone \in SUBSET Range(active_clients) :
           /\ killed' = stop_daemons(gone).killed
           /\ sched_pc' = IF stop_daemons(gone).raised THEN "crashed" ELSE "exited"
    /\ UNCHANGED <<traceLengths, traceDepths, traceConstantinopleOps,
                   combined_trace, trace_summary, summary_pc,
                   active_clients, force_save, counter, budget, prod_pc,
                   pending, q, tests, channel, active_sockets, fs, stats,
                   failures, socketlist>>

NextSigint == Next \/ Sigint

\* ------------------------------------------------------------- get_summary
\* A combined trace: `pre` step lines, then, if marked, a line starting with
\* "[!!]" and `post` more lines.  A line is given by its kind and its index
\* in the trace (counted from 0, as enumerate does).
Line(kind, n) == [kind |-> kind, n |-> n]
CombinedTrace(pre, marked, post) ==
    [k \in 1..(pre + (IF marked THEN 1 + post ELSE 0)) |->
        IF marked /\ k = pre + 1 THEN Line("diff", k - 1) ELSE Line("step", k - 1)]
CombinedTraces ==
    {CombinedTrace(pre, FALSE, 0) : pre \in 0..MaxSteps}
        \cup {CombinedTrace(pre, TRUE, post) : pre \in 0..MaxSteps, post \in 0..MaxFollowing}

\* line.startswith("[!!]")
IsDiff(line) == line.kind = "diff"
\* The positions (from 1) of the marker lines of a trace.
DiffPositions(trace) == {k \in 1..Len(trace) : IsDiff(trace[k])}
\* The position (from 1) of the first marker line, or 0.
FirstDiff(trace) ==
    IF DiffPositions(trace) = {} THEN 0
    ELSE CHOOSE k \in DiffPositions(trace) : \A j \in DiffPositions(trace) : k <= j

\* deque([], n).append
BufAppend(buf, x, n) == IF Len(buf) < n THEN Append(buf, x) ELSE Append(Tail(buf), x)
\* buf.append of lines[from..to] in order.
RECURSIVE BufAppendAll(_, _, _, _, _)
BufAppendAll(buf, lines, from, to, n) ==
    IF from > to THEN buf
    ELSE BufAppendAll(BufAppend(buf, lines[from], n), lines, from + 1, to, n)

\* The value of `index` (from 0) when the first loop is left: the index of
\* the first marker line, else of the last line, 0 for an empty trace.
SummaryIndex(trace) ==
    IF FirstDiff(trace) > 0 THEN FirstDiff(trace) - 1
    ELSE IF trace = << >> THEN 0 ELSE Len(trace) - 1
\* The minimum of two numbers.
Min(a, b) == IF a < b THEN a ELSE b

\* Fuzzer.get_summary: the lines before the first marker go through a deque
\* of maxlen n, then the header line, then combined_trace[index..index+4],
\* all appended to that same deque.
get_summary(trace, n) ==
    LET index == SummaryIndex(trace)
        seen == IF FirstDiff(trace) > 0 THEN FirstDiff(trace) - 1 ELSE Len(trace)
        looped == BufAppendAll(<< >>, trace, 1, seen, n)
        headed == IF FirstDiff(trace) > 0
                  THEN BufAppend(looped, Line("header", index), n)
                  ELSE looped
    IN BufAppendAll(headed, trace, index + 1,
                    Min(Len(trace), index + SummaryTail), n)

\* A call of get_summary on some combined trace.
InitSummary ==
    /\ active_clients = <<"geth", "parity">>
    /\ force_save = FALSE
    /\ counter = 0
    /\ budget = 0
    /\ prod_pc = "create"
    /\ pending = << >>
    /\ q = << >>
    /\ tests = << >>
    /\ channel = << >>
    /\ active_sockets = {}
    /\ fs = << >>
    /\ stats = [pass_count |-> 0, fail_count |-> 0, total_count |-> 0,
                num_active_tests |-> 0, num_active_sockets |-> 0]
    /\ failures = << >>
    /\ sched_pc = "events"
    /\ socketlist = {}
    /\ killed = << >>
    /\ NoSamples
    /\ combined_trace \in CombinedTraces
    /\ trace_summary = << >>
    /\ summary_pc = "call"

\* trace_summary = self.get_summary(trace_output)
GetSummary ==
    /\ summary_pc = "call"
    /\ trace_summary' = get_summary(combined_trace, SummaryN)
    /\ summary_pc' = "returned"
    /\ UNCHANGED <<traceLengths, traceDepths, traceConstantinopleOps,
                   combined_trace, active_clients, force_save, counter,
                   budget, prod_pc, pending, q, tests, channel,
                   active_sockets, fs, stats, failures, sched_pc, socketlist,
                   killed>>

SpecSummary == InitSummary /\ [][GetSummary]_vars

SpecSigint == Init /\ [][NextSigint]_vars

\* ------------------------------------------------------------------ claims
Ids == DOMAIN tests
Count(seq, x) == Cardinality({i \in 1..Len(seq) : seq[i] = x})
\* The scheduler has taken the test from the queue.
Pulled(t) == tests[t].phase # "generated"
\* postprocess_test has been entered for the test.
PostProcessed(t) == tests[t].calls # << >>
Archived(t) == Count(tests[t].calls, "saveArtefacts") > 0
Discarded(t) == Count(tests[t].calls, "removeFiles") > 0
Registered(t) == \E s \in active_sockets : s[1] = t
Failed(t) == t \in Range(failures)

\* C1: a test is post-processed only after every runner started for it has
\* fired a completion event: once postprocess_test has been entered for a
\* test, each of its channels has been handled (one logged event per runner),
\* is closed and is no longer registered in the poller.
C1_PostprocessAfterAllCompletions ==
    \A t \in Ids :
        PostProcessed(t) =>
            /\ Len(tests[t].socketEvent) = Len(tests[t].procs)
            /\ \A i \in 1..Len(tests[t].procs) :
                   /\ channel[<<t, tests[t].procs[i]>>].state = "closed"
                   /\ <<t, tests[t].procs[i]>> \notin active_sockets

\* A later test with two runners is post-processed while an earlier test
\* still has a registered channel.
C1_Witness ==
    \E t, u \in Ids :
        /\ u < t
        /\ Len(tests[t].procs) = 2
        /\ PostProcessed(t)
        /\ Registered(u)

\* C2: archive (saveArtefacts) and discard (removeFiles) are mutually
\* exclusive and terminal: for no test are both called, and neither is called
\* more than once.
C2_ArchiveDiscardExclusive ==
    \A t \in Ids :
        Count(tests[t].calls, "saveArtefacts") + Count(tests[t].calls, "removeFiles") <= 1

\* One test has been archived and another discarded.
C2_Witness ==
    \E t, u \in Ids :
        /\ Archived(t) /\ tests[t].phase = "done"
        /\ Discarded(u) /\ tests[u].phase = "done"

\* C3: every test the scheduler pulls reaches numprocs == 0 and a terminal
\* outcome.  A test reaches its outcome only through the firing of one of its
\* registered channels, so the claim needs every pulled test to be, at any
\* time, either waited for (a channel of it is registered) or finished.
C3_PulledTestReachesOutcome ==
    \A t \in Ids :
        Pulled(t) =>
            \/ Registered(t)
            \/ tests[t].numprocs = 0 /\ (Archived(t) \/ Discarded(t))

\* C4: num_active_tests, the number of tests dispatched and not yet
\* post-processed, never exceeds MAX_PARALELL.
C4_ActiveTestsAtMostCap ==
    /\ stats.num_active_tests <= MAX_PARALELL
    /\ stats.num_active_tests =
           Cardinality({t \in Ids : tests[t].phase = "dispatched"})

\* The cap is reached and the guard has turned a test away.
C4_Witness ==
    /\ stats.num_active_tests = MAX_PARALELL
    /\ Cardinality({t \in Ids : tests[t].phase = "dispatched"}) = MAX_PARALELL
    /\ \E t \in Ids : tests[t].phase = "skipped"

\* C5: a test pulled while num_active_tests >= MAX_PARALELL is retried, not
\* lost: no test leaves the queue without being dispatched.
C5_TestAtCapNotLost ==
    \A t \in Ids : tests[t].phase # "skipped"

\* C6: when no runner is started for a test, the scheduler does not deadlock:
\* it never waits in poll() with no channel registered, and whenever it is
\* back at the queue every test it pulled has been counted as a pass.
C6_NoRunnerNoDeadlock ==
    StartedClients(active_clients) = << >> =>
        /\ sched_pc = "poll" => active_sockets # {}
        /\ sched_pc = "get" =>
               /\ \A t \in Ids : Pulled(t) => tests[t].phase = "done" /\ ~Failed(t)
               /\ stats.pass_count = Cardinality({t \in Ids : Pulled(t)})

\* The clients of a test whose trace file was found, and whether each of
\* them left a non-empty trace.
OthersNonEmpty(t) ==
    \A i \in 1..Len(tests[t].procs) :
        tests[t].procs[i] \notin tests[t].missing => tests[t].canon_traces[i] # << >>

\* C7: a test post-processed with the trace file of exactly one of its N >= 2
\* clients missing, the others' traces being non-empty, is reported as FAIL
\* and its artefacts (test JSON, the traces that exist) are archived.
C7_MissingTraceReportedFail ==
    \A t \in Ids :
        ( /\ PostProcessed(t)
          /\ Len(tests[t].procs) >= 2
          /\ Cardinality(tests[t].missing) = 1
          /\ OthersNonEmpty(t) )
        => /\ Failed(t)
           /\ stats.fail_count >= 1
           /\ ArtefactLocation(fullfilename(t)) \in DOMAIN fs
           /\ \A c \in Range(tests[t].procs) \ tests[t].missing :
                  ArtefactLocation(tempTraceLocation(t, c)) \in DOMAIN fs

\* C8: a missing trace file never terminates the scheduler loop: the
\* post-processing of a test with a missing trace file raises nothing.
C8_MissingTraceDoesNotCrash ==
    \A t \in Ids :
        tests[t].missing # {} => tests[t].phase # "crashed" /\ sched_pc # "crashed"

\* C9: the canonical trace recorded for a client whose trace file is absent
\* is the empty sequence.
C9_MissingTraceIsEmpty ==
    \A t \in Ids :
        \A i \in 1..Len(tests[t].canon_traces) :
            tests[t].procs[i] \in tests[t].missing => tests[t].canon_traces[i] = << >>

\* C10: with force_save, a test whose clients' traces are all equal has its
\* test JSON and trace files moved to artefacts/ and is counted as a PASS:
\* it is not in the failures list and fail_count stays 0 while no test
\* diverges.
C10_ForceSavePass ==
    force_save =>
        /\ \A t \in Ids :
               ( /\ tests[t].phase = "done"
                 /\ tests[t].missing = {}
                 /\ compare_traces(tests[t].canon_traces) )
               => /\ ArtefactLocation(fullfilename(t)) \in DOMAIN fs
                  /\ \A c \in Range(tests[t].procs) :
                         ArtefactLocation(tempTraceLocation(t, c)) \in DOMAIN fs
                  /\ ~Failed(t)
        /\ (\A t \in Ids : compare_traces(tests[t].canon_traces))
               => stats.fail_count = 0 /\ failures = << >>

\* The test was counted by onPass / by onFail.
CountedPass(t) == tests[t].phase = "done" /\ ~Failed(t)
CountedFail(t) == tests[t].phase = "done" /\ Failed(t)
\* The files of a test anywhere in testfiles/, logs/ or artefacts/.
FilesOf(t) == {f \in DOMAIN fs : f[2] = t}

\* C11: without force_save, a test counted as PASS leaves no file of its id
\* in testfiles/, logs/ or artefacts/: the test JSON and every recorded
\* trace file are deleted and no artefact is written.
C11_PassLeavesNoFile ==
    ~force_save =>
        \A t \in Ids : CountedPass(t) =>
            /\ FilesOf(t) = {}
            /\ tests[t].additionalArtefacts = << >>
\* A two-client test counted as PASS and discarded.
C11_Witness ==
    /\ ~force_save
    /\ \E t \in Ids : /\ CountedPass(t)
                       /\ Len(tests[t].procs) = 2
                       /\ Len(tests[t].traceFiles) = 2
                       /\ Discarded(t)

\* C12: for a test counted as FAIL, artefacts/ holds the test JSON, the
\* trace file of every client that produced one and both summary artefacts,
\* and the test JSON and those trace files are gone from testfiles/, logs/.
C12_FailArchivesEverything ==
    \A t \in Ids : CountedFail(t) =>
        /\ ArtefactLocation(fullfilename(t)) \in DOMAIN fs
        /\ fullfilename(t) \notin DOMAIN fs
        /\ \A c \in Range(tests[t].procs) \ tests[t].missing :
               /\ ArtefactLocation(tempTraceLocation(t, c)) \in DOMAIN fs
               /\ tempTraceLocation(t, c) \notin DOMAIN fs
        /\ <<"artefacts", t, "combined_trace.log">> \in DOMAIN fs
        /\ <<"artefacts", t, "shortened_trace.log">> \in DOMAIN fs
\* A two-client test with diverging traces counted as FAIL.
C12_Witness ==
    \E t \in Ids : /\ CountedFail(t)
                   /\ Len(tests[t].procs) = 2
                   /\ ~compare_traces(tests[t].canon_traces)
                   /\ Archived(t)

\* The daemons a kill was attempted for, in order.
KilledNames == [i \in 1..Len(killed) |-> killed[i].name]
\* The container clients of the configured clients list, in order.
ContainerClients == SelectSeq(active_clients, LAMBDA c : c \in DockerClients)
\* signal_handler has run.
SigintHandled == sched_pc = "exited" \/ killed # << >>

\* C13: on SIGINT a kill is attempted on the daemon of every container
\* client of the clients list before the process exits, whether or not the
\* kill of an earlier one failed: once the handler has run, kill_daemon has
\* been called for each of them and the handler ended in sys.exit(1).
C13_SigintKillsEveryDaemon ==
    SigintHandled =>
        /\ KilledNames = ContainerClients
        /\ sched_pc = "exited"
\* SIGINT with runners in flight, the first of two daemons not found and the
\* second one killed all the same.
C13_Witness ==
    /\ sched_pc = "exited"
    /\ Len(killed) = 2
    /\ ~killed[1].found
    /\ killed[2].found
    /\ \E t \in Ids : Registered(t)

\* The generator thread (started non-daemon, `while True`) is still alive:
\* it is creating a test or inside q.put.
ProducerAlive == prod_pc \in {"create", "put"}

\* C14: after SIGINT the process exits without awaiting in-flight tests,
\* also with the generator thread running or blocked in put: when the main
\* thread has left through sys.exit(1), no non-daemon thread is left for the
\* interpreter to wait for.
C14_SigintExitsProcess ==
    sched_pc = "exited" => ~ProducerAlive

\* C15: a runner start that raises affects only its (test, client) pair:
\* the scheduler loop goes on, and every other runner of the test is
\* started and its channel registered (or already handled).
C15_StartFailureIsLocal ==
    \A t \in Ids : tests[t].phase = "startfailed" =>
        /\ sched_pc # "crashed"
        /\ \A c \in Range(StartedClients(active_clients)) :
               ~StarterRaises(c) =>
                   /\ c \in Range(tests[t].procs)
                   /\ <<t, c>> \in DOMAIN channel
                   /\ channel[<<t, c>>].state = "closed" \/ <<t, c>> \in active_sockets

\* The tests whose file is written and which the scheduler has not pulled.
Unpulled == {t \in Ids : ~Pulled(t)}

\* C16: the handoff queue holds between 0 and 20 tests, and at most 21 tests
\* are generated but not yet pulled (20 queued and the one the generator
\* is blocked putting).
C16_QueueBounded ==
    /\ Len(q) \in 0..QueueMaxSize
    /\ Cardinality(Unpulled) <= QueueMaxSize + 1
\* The queue is full and the generator is blocked in put with a 21st test.
C16_Witness ==
    /\ Len(q) = QueueMaxSize
    /\ prod_pc = "put"
    /\ pending # << >>
    /\ Cardinality(Unpulled) = QueueMaxSize + 1

\* No id is queued twice, queued and pending ids are below the counter and
\* belong to tests the scheduler has not seen yet.
DistinctIds ==
    /\ \A i, j \in 1..Len(q) : q[i] = q[j] => i = j
    /\ \A i \in 1..Len(q) : q[i] \in Ids /\ q[i] < counter /\ ~Pulled(q[i])
    /\ \A i \in 1..Len(pending) :
           /\ pending[i] \in Ids /\ pending[i] < counter /\ ~Pulled(pending[i])
           /\ pending[i] \notin Range(q)
    /\ \A t \in Ids : t < counter
\* A step of the generator that creates a test takes the counter as its id
\* and adds one to it; no other step changes the counter.
CounterStep ==
    IF prod_pc = "create" /\ prod_pc' = "put"
    THEN counter' = counter + 1 /\ pending' = <<counter>> /\ counter \notin Ids
    ELSE counter' = counter

\* C17: test ids are pairwise distinct: the counter increases by exactly one
\* per generated test and no two tests handed to the scheduler share an id.
C17_IdsDistinct == [](DistinctIds) /\ [][CounterStep]_vars
\* Several tests queued after the scheduler has already pulled one.
C17_Witness ==
    /\ Len(q) >= 2
    /\ pending # << >>
    /\ \E t \in Ids : Pulled(t)

\* The completion channels of a test that have fired and been handled.
Fired(t) == Len(tests[t].socketEvent)

\* C18: for every dispatched test, len(procs) and numprocs right after
\* dispatch equal the number of active clients; afterwards numprocs is that
\* number less one per fired completion channel, and never below 0.
C18_ProcsEqualActiveClients ==
    \A t \in Ids : tests[t].phase \in {"dispatched", "done", "crashed"} =>
        /\ Len(tests[t].procs) = Len(active_clients)
        /\ tests[t].numprocs = Len(active_clients) - Fired(t)
        /\ tests[t].numprocs >= 0

\* C19: with exactly one active client and without force_save, every test
\* that completes (all of its runners have fired) is counted as PASS and
\* discarded, whatever trace the client left, an empty or missing one
\* included.
C19_SingleClientAlwaysPass ==
    (Len(active_clients) = 1 /\ ~force_save) =>
        /\ \A t \in Ids : PostProcessed(t) =>
               /\ CountedPass(t)
               /\ Discarded(t)
               /\ FilesOf(t) = {}
        /\ stats.pass_count = Cardinality({t \in Ids : PostProcessed(t)})

\* saveArtefacts called once more on a test as its post-processing left it.
SavedAgain(t) == saveArtefacts(t, [test |-> tests[t], fs |-> fs, raised |-> FALSE])

\* C20: archive is idempotent: saveArtefacts on a test whose files are
\* already in artefacts/ raises nothing and leaves the files and
\* test.traceFiles as they are.
C20_SaveArtefactsIdempotent ==
    \A t \in Ids : (tests[t].phase = "done" /\ Archived(t)) =>
        /\ ~SavedAgain(t).raised
        /\ SavedAgain(t).fs = fs
        /\ SavedAgain(t).test.traceFiles = tests[t].traceFiles

\* The positions at which a step is recorded for a test.
Positions(t, step) == {i \in 1..Len(tests[t].calls) : tests[t].calls[i] = step}
\* Every occurrence of the steps `first` comes before every one of `then`.
Precedes(t, first, then) ==
    \A a \in first, b \in then :
        \A i \in Positions(t, a), j \in Positions(t, b) : i < j

\* C21: per test, trace collection precedes comparison, which precedes the
\* statistics update (rolling samples and pass/fail/total counters), which
\* precedes archive/discard of the test's files.
C21_PerTestStepOrder ==
    \A t \in Ids :
        /\ Precedes(t, {"end_processes"}, {"compare_traces"})
        /\ Precedes(t, {"compare_traces"}, {"samples", "onPass", "onFail"})
        /\ Precedes(t, {"samples", "onPass", "onFail"},
                       {"removeFiles", "saveArtefacts"})

\* The lines of a summary that are lines of the combined trace.
TraceLinesOf(summary) == SelectSeq(summary, LAMBDA l : l.kind # "header")
\* The index (from 0) of the first marker line of the trace under study.
DiffIndex == FirstDiff(combined_trace) - 1

\* C22: for a combined trace whose first marker line is at index i,
\* get_summary returns the min(20, i) step lines right before the marker,
\* then the up to 5 lines from the marker on; no preceding step is dropped
\* because of the lines that follow.
C22_SummaryKeepsPrecedingSteps ==
    (summary_pc = "returned" /\ FirstDiff(combined_trace) > 0) =>
        TraceLinesOf(trace_summary) =
            SubSeq(combined_trace, DiffIndex - Min(SummaryN, DiffIndex) + 1, DiffIndex)
                \o SubSeq(combined_trace, DiffIndex + 1,
                          Min(Len(combined_trace), DiffIndex + SummaryTail))

\* The three deque appends of postprocess_test have run for the test.
HasSample(t) == Positions(t, "samples") # {}
\* Number of tests that left a sample so far.
NumSampled == Cardinality({t \in Ids : HasSample(t)})
\* The last n elements of a sequence (all of them if it is shorter).
LastN(seq, n) == SubSeq(seq, Len(seq) - Min(n, Len(seq)) + 1, Len(seq))
\* Every post-processed test left exactly one sample, and each deque holds
\* min(k, 100) samples after k tests.
SampleCount ==
    /\ \A t \in Ids : /\ PostProcessed(t) <=> HasSample(t)
                       /\ Cardinality(Positions(t, "samples")) <= 1
    /\ \A d \in {traceLengths, traceDepths, traceConstantinopleOps} :
           Len(d) = Min(NumSampled, DequeMaxLen)
\* The tests that get their sample in this step.
NewlySampled ==
    {t \in DOMAIN tests' :
        /\ \E i \in 1..Len(tests'[t].calls) : tests'[t].calls[i] = "samples"
        /\ t \in Ids => ~HasSample(t)}
\* A step that post-processes a test puts that test's sample at the end of
\* each deque and keeps the last 100; no other step changes a deque.
SampleStep ==
    IF NewlySampled = {}
    THEN UNCHANGED <<traceLengths, traceDepths, traceConstantinopleOps>>
    ELSE \E t \in NewlySampled :
            /\ NewlySampled = {t}
            /\ traceLengths' =
                   LastN(Append(traceLengths,
                                Len(tests'[t].canon_traces[Len(tests'[t].canon_traces)])),
                         DequeMaxLen)
            /\ traceDepths' =
                   LastN(Append(traceDepths, StatsResult(tests'[t]).maxDepth),
                         DequeMaxLen)
            /\ traceConstantinopleOps' =
                   LastN(Append(traceConstantinopleOps,
                                StatsResult(tests'[t]).constatinopleOps),
                         DequeMaxLen)

\* C23: traceLengths, traceDepths and traceConstantinopleOps each get
\* exactly one sample per post-processed test, never hold more than 100
\* samples, and after k post-processed tests hold the samples of the last
\* min(k, 100) tests in completion order.
C23_RollingSamples == [](SampleCount) /\ [][SampleStep]_vars
\* The 101st test has been post-processed: the deques are full and the
\* oldest sample has been discarded for the newest.
C23_Witness ==
    /\ NumSampled = DequeMaxLen + 1
    /\ Len(traceLengths) = DequeMaxLen
    /\ traceLengths[DequeMaxLen] = 0
    /\ traceLengths[DequeMaxLen - 1] = 1

\* C24: the generator writes a test's JSON file before it puts the test in
\* the queue, so every queued test, and every test the scheduler pulled
\* and started runners for, has its file in testfiles/; and the scheduler
\* pulls tests in the order of their counters: the queue is in increasing
\* order and every pulled id is below every queued one.
C24_FileWrittenBeforePush ==
    /\ \A i \in 1..Len(q) : fullfilename(q[i]) \in DOMAIN fs
    /\ \A t \in Ids : tests[t].phase = "dispatched" => fullfilename(t) \in DOMAIN fs
    /\ \A i, j \in 1..Len(q) : i < j => q[i] < q[j]
    /\ \A t \in Ids : Pulled(t) => \A i \in 1..Len(q) : t < q[i]
\* A test created by the generator has been pulled after an earlier one and
\* is in flight with its file in place, while a later one waits in the queue.
C24_Witness ==
    /\ q # << >>
    /\ \E t1, t2 \in Ids :
           /\ t1 < t2
           /\ Pulled(t1)
           /\ tests[t2].phase = "dispatched"
           /\ Registered(t2)
           /\ tests[t2].socketEvent = << >>
           /\ fullfilename(t2) \in DOMAIN fs

\* end_processes has run for the test.
Collected(t) == Positions(t, "end_processes") # {}

\* C25: once a test's traces have been collected, canon_traces holds one
\* entry for every active client, in the order of the client names given to
\* the comparator (Config.clientNames, the names of active_clients), each
\* entry being that client's trace or, for a missing file, an empty one.
C25_OneTracePerActiveClient ==
    \A t \in Ids : Collected(t) =>
        /\ Len(tests[t].canon_traces) = Len(active_clients)
        /\ Len(tests[t].procs) = Len(active_clients)
        /\ \A i \in 1..Len(active_clients) :
               /\ tests[t].procs[i] = active_clients[i]
               /\ active_clients[i] \in tests[t].missing
                      => tests[t].canon_traces[i] = << >>

\* The tests that were dispatched and are not post-processed yet.
InFlight == {t \in Ids : tests[t].phase = "dispatched"}
\* The sum of numprocs over a set of tests.
RECURSIVE SumNumprocs(_)
SumNumprocs(T) ==
    IF T = {} THEN 0
    ELSE LET t == CHOOSE x \in T : TRUE
         IN tests[t].numprocs + SumNumprocs(T \ {t})
\* The channels of a test that have fired and been handled.
ClosedChannels(t) == {s \in DOMAIN channel : s[1] = t /\ channel[s].state = "closed"}

\* C26: at the end of every scheduler iteration (the loop is back at the
\* generator) the bookkeeping is consistent: active_sockets has as many
\* entries as the numprocs of the in-flight tests add up to, every
\* registered channel belongs to exactly one in-flight test, one of its
\* procs, num_active_tests is the number of dispatched tests with
\* numprocs > 0, and every fired channel is unregistered, closed and logged
\* in its test's socketEvent exactly once.
C26_BookkeepingConsistent ==
    sched_pc = "get" =>
        /\ Cardinality(active_sockets) = SumNumprocs(InFlight)
        /\ \A s \in active_sockets :
               /\ s[1] \in InFlight
               /\ s[2] \in Range(tests[s[1]].procs)
               /\ channel[s].state # "closed"
        /\ stats.num_active_tests =
               Cardinality({t \in InFlight : tests[t].numprocs > 0})
        /\ socketlist = {}
        /\ \A t \in Ids :
               /\ Len(tests[t].socketEvent) = Cardinality(ClosedChannels(t))
               /\ ClosedChannels(t) \cap active_sockets = {}
               /\ tests[t].phase \in {"dispatched", "done"} =>
                      tests[t].numprocs + Len(tests[t].socketEvent) = Len(tests[t].procs)
\* Back at the generator with one test finished and counted and another in
\* flight with both of its channels registered.
C26_Witness ==
    /\ sched_pc = "get"
    /\ stats.num_active_tests = 1
    /\ Cardinality(active_sockets) = 2
    /\ \E t0, t1 \in Ids :
           /\ tests[t0].phase = "done"
           /\ Len(tests[t0].socketEvent) = 2
           /\ tests[t1].phase = "dispatched"
           /\ tests[t1].numprocs = 2

\* postprocess_test has returned for the test.
PostprocessReturned(t) == tests[t].phase = "done"

\* C27: after any sequence of post-processed tests, pass_count + fail_count
\* = total_count, total_count is the number of tests post-processed so far
\* (postprocess_test has returned for them), and the failures list has
\* fail_count entries.
C27_CountersAddUp ==
    /\ stats.pass_count + stats.fail_count = stats.total_count
    /\ stats.total_count = Cardinality({t \in Ids : PostprocessReturned(t)})
    /\ Len(failures) = stats.fail_count
    /\ stats.pass_count = Cardinality({t \in Ids : CountedPass(t)})
    /\ stats.fail_count = Cardinality({t \in Ids : CountedFail(t)})
\* One test has passed and another has failed.
C27_Witness ==
    /\ stats.pass_count = 1
    /\ stats.fail_count = 1
    /\ stats.total_count = 2
    /\ Len(failures) = 1

\* C28: with exactly one active client at most one test is in flight at any
\* time: the scheduler dispatches one test per iteration and then waits in
\* poll() until its only channel has fired, so num_active_tests <= 1 and
\* tests run one after the other.
C28_SingleClientSequential ==
    Len(active_clients) = 1 =>
        /\ stats.num_active_tests <= 1
        /\ Cardinality(InFlight) <= 1
        /\ Cardinality(active_sockets) <= 1
\* One client: a test is in flight and waited for in poll() after earlier
\* ones have finished, while the next one sits in the queue.
C28_Witness ==
    /\ Len(active_clients) = 1
    /\ stats.num_active_tests = 1
    /\ sched_pc = "poll"
    /\ q # << >>
    /\ \E t \in Ids : tests[t].phase = "done"
    /\ \E t \in InFlight : channel[<<t, active_clients[1]>>].state = "running"

====
